---- MODULE Spec2Model ----
(***************************************************************************)
(* A model of respx/patterns.py: the Match result, the leaf patterns, the   *)
(* AND / OR / NOT combinators, the builder M, parse_url_patterns and        *)
(* merge_patterns.                                                          *)
(*                                                                          *)
(* Python objects whose identity matters (Match results) live in a heap and *)
(* are handled by reference.  Strings are TLA+ strings, handled with Len,   *)
(* SubSeq and \o.                                                           *)
(***************************************************************************)
EXTENDS Integers, Sequences, FiniteSets, TLC

VARIABLES
    tree,     \* the pattern under construction, None when absent
    built,    \* the keyword arguments M built the pattern from, <<>> otherwise
    last,     \* the last operation: its arguments and what it returned
    nmerge    \* how many merge_patterns calls were made on the pattern

vars == <<tree, built, last, nmerge>>

(***************************************************************************)
(* Bounds of the model.                                                     *)
(***************************************************************************)
\* leaves a test author composes with & and | before merging
MaxLeaves == 2
\* merge_patterns calls on one tree
MaxMerges == 2
\* pairs in a configured or a request multi-item list (Headers, Params)
MaxItems == 3
\* segments of a JSON path
MaxBits == 3

(***************************************************************************)
(* Python's None, and strings.                                              *)
(***************************************************************************)
None == [kind |-> "none"]

IsNone(x) == x = None

\* str.startswith
StartsWith(s, prefix) ==
    /\ Len(prefix) <= Len(s)
    /\ SubSeq(s, 1, Len(prefix)) = prefix

\* s[n:]
DropPrefix(s, n) == SubSeq(s, n + 1, Len(s))

\* str.find(sub, from): the first index >= from at which sub occurs, 0 when none
RECURSIVE Find(_, _, _)
Find(s, sub, from) ==
    IF from + Len(sub) - 1 > Len(s) THEN 0
    ELSE IF SubSeq(s, from, from + Len(sub) - 1) = sub THEN from
    ELSE Find(s, sub, from + 1)

\* str.rfind(sub): the last index at which sub occurs, 0 when none
RECURSIVE RFindFrom(_, _, _)
RFindFrom(s, sub, from) ==
    IF from < 1 THEN 0
    ELSE IF SubSeq(s, from, from + Len(sub) - 1) = sub THEN from
    ELSE RFindFrom(s, sub, from - 1)

RFind(s, sub) == RFindFrom(s, sub, Len(s) - Len(sub) + 1)

\* str.partition(sep): <<before, sep or "", after>>
Partition(s, sep) ==
    LET i == Find(s, sep, 1)
    IN  IF i = 0 THEN <<s, "", "">>
        ELSE <<SubSeq(s, 1, i - 1), sep, DropPrefix(s, i + Len(sep) - 1)>>

\* str.rpartition(sep): <<before, sep or "", after>>
RPartition(s, sep) ==
    LET i == RFind(s, sep)
    IN  IF i = 0 THEN <<"", "", s>>
        ELSE <<SubSeq(s, 1, i - 1), sep, DropPrefix(s, i + Len(sep) - 1)>>

LowerChars == "abcdefghijklmnopqrstuvwxyz"
UpperChars == "ABCDEFGHIJKLMNOPQRSTUVWXYZ"
DigitChars == "0123456789"

\* the character of `to` at the place c has in `from`, c itself when it has none
MapChar(c, from, to) ==
    LET i == Find(from, c, 1)
    IN  IF i = 0 THEN c ELSE SubSeq(to, i, i)

RECURSIVE MapStr(_, _, _)
MapStr(s, from, to) ==
    IF s = "" THEN ""
    ELSE MapChar(SubSeq(s, 1, 1), from, to) \o MapStr(DropPrefix(s, 1), from, to)

\* str.upper, str.lower
Upper(s) == MapStr(s, LowerChars, UpperChars)
Lower(s) == MapStr(s, UpperChars, LowerChars)

\* str.isdigit
RECURSIVE AllDigits(_)
AllDigits(s) ==
    \/ s = ""
    \/ /\ Find(DigitChars, SubSeq(s, 1, 1), 1) > 0
       /\ AllDigits(DropPrefix(s, 1))

IsDigit(s) == s # "" /\ AllDigits(s)

\* int(s) of a string of digits
RECURSIVE ToInt(_, _)
ToInt(s, acc) ==
    IF s = "" THEN acc
    ELSE ToInt(DropPrefix(s, 1), 10 * acc + Find(DigitChars, SubSeq(s, 1, 1), 1) - 1)

\* a relative path with every "/" that follows a "/" removed
RECURSIVE CollapseSlashes(_, _)
CollapseSlashes(s, prev) ==
    IF s = "" THEN ""
    ELSE LET c == SubSeq(s, 1, 1)
         IN  IF c = "/" /\ prev = "/" THEN CollapseSlashes(DropPrefix(s, 1), c)
             ELSE c \o CollapseSlashes(DropPrefix(s, 1), c)

\* urllib.parse.urljoin("/", x), for x without scheme, dot segments, query or
\* fragment
UrlJoinRoot(x) ==
    IF x = "" THEN "/"
    ELSE IF StartsWith(x, "//")
    THEN LET rest == DropPrefix(x, 2)
         IN  IF rest = "" THEN "/"
             ELSE IF SubSeq(rest, 1, 1) # "/" THEN x
             ELSE rest
    ELSE IF SubSeq(x, 1, 1) = "/" THEN x
    ELSE "/" \o CollapseSlashes(x, "")

(***************************************************************************)
(* httpx.URL and httpx.QueryParams, as far as the patterns read them.       *)
(* A URL is scheme://host[:port][path][?query]; a port equal to the         *)
(* scheme's default reads as None (0 here, falsy like None).                *)
(***************************************************************************)
\* get_scheme_port; None is 0
get_scheme_port(scheme) ==
    IF scheme = "http" THEN 80
    ELSE IF scheme = "https" THEN 443
    ELSE 0

\* the least of two str.find results, 0 (not found) counting as the greatest
FirstOf(i, j) ==
    IF i = 0 THEN j
    ELSE IF j = 0 THEN i
    ELSE IF i < j THEN i ELSE j

HttpxURL(s) ==
    LET i      == Find(s, "://", 1)
        scheme == IF i = 0 THEN "" ELSE Lower(SubSeq(s, 1, i - 1))
        rest   == IF i = 0 THEN s ELSE DropPrefix(s, i + 2)
        j      == IF i = 0 THEN 1
                  ELSE FirstOf(Find(rest, "/", 1), Find(rest, "?", 1))
        auth   == IF j = 0 THEN rest ELSE SubSeq(rest, 1, j - 1)
        tail   == IF j = 0 THEN "" ELSE DropPrefix(rest, j - 1)
        hp     == Partition(auth, ":")
        pq     == Partition(tail, "?")
        explicit == IF hp[3] = "" THEN 0 ELSE ToInt(hp[3], 0)
    IN  [ scheme   |-> scheme,
          host     |-> Lower(hp[1]),
          port     |-> IF explicit = get_scheme_port(scheme) THEN 0 ELSE explicit,
          raw_path |-> pq[1],                              \* _uri_reference.path
          path     |-> IF pq[1] = "" THEN "/" ELSE pq[1],  \* URL.path
          port_str |-> hp[3],
          query    |-> pq[3] ]

\* str(httpx.URL(s)): the URL written back from its parts
UrlStr(u) ==
    (IF u.scheme = "" THEN "" ELSE u.scheme \o "://")
    \o u.host
    \o (IF u.port = 0 THEN "" ELSE ":" \o u.port_str)
    \o u.raw_path
    \o (IF u.query = "" THEN "" ELSE "?" \o u.query)

\* httpx.QueryParams(query).multi_items(): the (key, value) pairs in order
RECURSIVE QueryParams(_)
QueryParams(query) ==
    IF query = "" THEN <<>>
    ELSE LET parts == Partition(query, "&")
             kv    == Partition(parts[1], "=")
         IN  <<<<kv[1], kv[3]>>>> \o QueryParams(parts[3])

(***************************************************************************)
(* Python values carry their type: [str |-> s], [int |-> n], [list |-> l],  *)
(* [re |-> source] a compiled regular expression, [items |-> pairs] an      *)
(* httpx.Headers or httpx.QueryParams with its multi_items(), and           *)
(* [dict |-> pairs] a dict with its <<key, value>> items in insertion       *)
(* order.  None among ints is [int |-> 0], falsy like None.                 *)
(***************************************************************************)
PyStr(s) == [str |-> s]
PyInt(n) == [int |-> n]
PyList(l) == [list |-> l]
PyItems(pairs) == [items |-> pairs]
PyDict(pairs) == [dict |-> pairs]

\* re.compile(source)
Compile(source) == [re |-> source]

\* isinstance(value, <type>)
IsA(value, type) == DOMAIN value = {type}

\* not value
Falsy(value) ==
    CASE IsA(value, "str")   -> value.str = ""
      [] IsA(value, "int")   -> value.int = 0
      [] IsA(value, "list")  -> value.list = <<>>
      [] IsA(value, "items") -> value.items = <<>>
      [] IsA(value, "dict")  -> value.dict = <<>>
      [] IsA(value, "re")    -> FALSE

(***************************************************************************)
(* Lookup, Match and the leaf patterns.                                     *)
(*                                                                          *)
(* A Match is [matches, context]; a context is a set of <<name, value>>     *)
(* pairs with one pair a name.  A leaf pattern is                           *)
(* [kind |-> "leaf", key, lookup, base, value], base being None or a leaf.  *)
(* Every leaf is an object of its own: no leaf object occurs twice in a     *)
(* tree.                                                                    *)
(***************************************************************************)
\* Pattern.lookups of each modelled kind, the default first
Lookups(key) ==
    CASE key = "method"  -> <<"eq", "in">>
      [] key = "headers" -> <<"contains", "eq">>
      [] key = "scheme"  -> <<"eq", "in">>
      [] key = "host"    -> <<"eq", "in">>
      [] key = "port"    -> <<"eq", "in">>
      [] key = "path"    -> <<"eq", "regex", "startswith", "in">>
      [] key = "params"  -> <<"contains", "eq">>
      [] key = "url"     -> <<"eq", "regex", "startswith">>
      [] key = "json"    -> <<"eq">>

\* the keys of PATTERNS that are modelled (cookies, content and data are not)
PATTERNS == {"method", "headers", "scheme", "host", "port", "path", "params",
             "url", "json"}

\* the Lookup enum's values
LookupNames == {"eq", "regex", "startswith", "contains", "in"}

\* Method.clean
Method_clean(value) ==
    IF IsA(value, "str") THEN PyStr(Upper(value.str)) ELSE value

\* Scheme.clean
Scheme_clean(value) ==
    IF IsA(value, "str") THEN PyStr(Lower(value.str)) ELSE value

\* Path.clean
Path_clean(lookup, value) ==
    IF lookup \in {"eq", "startswith"} /\ IsA(value, "str")
    THEN PyStr(UrlJoinRoot(value.str))
    ELSE IF lookup = "regex" /\ IsA(value, "str") THEN Compile(value.str)
    ELSE value

\* URL.clean, of a str or a compiled regular expression
URL_clean(lookup, value) ==
    IF lookup = "eq" /\ IsA(value, "str")
    THEN LET u == HttpxURL(value.str)
         IN  IF u.raw_path = ""
             THEN PyStr(UrlStr(u) \o "/")
             ELSE PyStr(UrlStr(u))
    ELSE IF lookup = "regex" /\ IsA(value, "str") THEN Compile(value.str)
    ELSE value

\* Params.clean, of a query string or a list of pairs
Params_clean(value) ==
    IF IsA(value, "str") THEN PyItems(QueryParams(value.str))
    ELSE PyItems(value.list)

\* Headers.clean, of a list of pairs
Headers_clean(value) == PyItems(value.list)

\* <Kind>.clean
Clean(key, lookup, value) ==
    CASE key = "method"  -> Method_clean(value)
      [] key = "scheme"  -> Scheme_clean(value)
      [] key = "path"    -> Path_clean(lookup, value)
      [] key = "url"     -> URL_clean(lookup, value)
      [] key = "params"  -> Params_clean(value)
      [] key = "headers" -> Headers_clean(value)
      [] OTHER -> value

\* Pattern.__init__; the caller passes a supported lookup or "" for none
Pattern(key, value, lookup) ==
    LET lk == IF lookup = "" THEN Lookups(key)[1] ELSE lookup
    IN  [ kind   |-> "leaf",
          key    |-> key,
          lookup |-> lk,
          base   |-> None,
          value  |-> Clean(key, lk, value) ]

\* whether Pattern.__init__ raises NotImplementedError
Unsupported(key, lookup) ==
    /\ lookup # ""
    /\ \A i \in 1..Len(Lookups(key)) : Lookups(key)[i] # lookup

Match(matches, context) == [matches |-> matches, context |-> context]

\* Match.__bool__
Bool(m) == m.matches

(***************************************************************************)
(* The modelled regular expressions are "^" literal "(?P<" name ">[0-9]+)$" *)
(* : re.search finds the literal followed by one or more digits to the end. *)
(***************************************************************************)
RegexLiteral(rx) == SubSeq(rx, 2, Find(rx, "(?P<", 1) - 1)

RegexGroup(rx) ==
    LET i == Find(rx, "(?P<", 1)
    IN  SubSeq(rx, i + 4, Find(rx, ">", i) - 1)

\* Pattern._regex
Pattern_regex(self, value) ==
    LET lit  == RegexLiteral(self.value.re)
        rest == DropPrefix(value.str, Len(lit))
    IN  IF StartsWith(value.str, lit) /\ IsDigit(rest)
        THEN Match(TRUE, {<<RegexGroup(self.value.re), rest>>})
        ELSE Match(FALSE, {})

\* how many times item occurs in the list
Count(list, item) == Cardinality({i \in 1..Len(list) : list[i] = item})

\* item in list
InList(list, item) == \E i \in 1..Len(list) : list[i] = item

\* MultiItemsMixin._contains
MultiItems_contains(self, value) ==
    LET value_list   == self.value.items
        request_list == value.items
    IN  IF Len(value_list) > Len(request_list) THEN Match(FALSE, {})
        ELSE IF \E i \in 1..Len(value_list) : ~InList(request_list, value_list[i])
        THEN Match(FALSE, {})
        ELSE Match(TRUE, {})

\* httpx.Headers.__eq__, httpx.QueryParams.__eq__: the sorted lists are equal
MultiItems_eq(a, b) ==
    /\ Len(a) = Len(b)
    /\ \A i \in 1..Len(a) : Count(a, a[i]) = Count(b, a[i])

\* Pattern._eq
Pattern_eq(self, value) ==
    IF IsA(self.value, "items")
    THEN Match(MultiItems_eq(value.items, self.value.items), {})
    ELSE Match(value = self.value, {})

\* Pattern._startswith
Pattern_startswith(self, value) ==
    Match(StartsWith(value.str, self.value.str), {})

\* Pattern._in: value in self.value, a list or a str
Pattern_in(self, value) ==
    IF IsA(self.value, "str")
    THEN Match(Find(self.value.str, value.str, 1) > 0, {})
    ELSE Match(InList(self.value.list, value), {})

\* Pattern._match: the lookup method named by self.lookup
Pattern__match(self, value) ==
    CASE self.lookup = "eq"         -> Pattern_eq(self, value)
      [] self.lookup = "regex"      -> Pattern_regex(self, value)
      [] self.lookup = "startswith" -> Pattern_startswith(self, value)
      [] self.lookup = "contains"   -> MultiItems_contains(self, value)
      [] self.lookup = "in"         -> Pattern_in(self, value)

(***************************************************************************)
(* A request is an httpx.Request: [method, url, headers, body], url being    *)
(* the httpx.URL, headers the multi-item list and body the value            *)
(* jsonlib.loads reads.                                                     *)
(***************************************************************************)
\* Port.parse
Port_parse(request) ==
    LET port == request.url.port
    IN  PyInt(IF port # 0 THEN port ELSE get_scheme_port(request.url.scheme))

\* URL.parse
URL_parse(request) ==
    LET u == request.url
    IN  PyStr(IF u.raw_path = "" THEN UrlStr(u) \o "/" ELSE UrlStr(u))

\* <Kind>.parse of the kinds a tree holds
Parse(self, request) ==
    CASE self.key = "method"  -> PyStr(request.method)
      [] self.key = "headers" -> PyItems(request.headers)
      [] self.key = "scheme"  -> PyStr(request.url.scheme)
      [] self.key = "host"    -> PyStr(request.url.host)
      [] self.key = "port"    -> Port_parse(request)
      [] self.key = "path"    -> PyStr(request.url.path)
      [] self.key = "params"  -> PyItems(QueryParams(request.url.query))
      [] self.key = "url"     -> URL_parse(request)

\* len(value) of a str or a list
PyLen(value) ==
    IF IsA(value, "str") THEN Len(value.str) ELSE Len(value.list)

\* Path.strip_base that leaves the remainder as cut, without urljoin("/", ...)
strip_base_as_cut(self, value) ==
    IF self.key = "path"
    THEN PyStr(DropPrefix(value.str, PyLen(self.base.value)))
    ELSE value

\* Pattern.strip_base, Path.strip_base
strip_base(self, value) ==
    IF self.key = "path"
    THEN PyStr(UrlJoinRoot(DropPrefix(value.str, PyLen(self.base.value))))
    ELSE value

(***************************************************************************)
(* One run of match(): the heap of the Match objects it creates and the log *)
(* of what ran.  A node of the tree is named by its place: <<>> the root,   *)
(* then 1 for the left (or only) operand and 2 for the right one.  The log  *)
(* holds "call" (a node's match entered), "base" (a leaf's base compared),  *)
(* "lookup" (a leaf's own lookup compared) and "ret" (a node's match        *)
(* returned ref, whose Match then read matches and context).                *)
(***************************************************************************)
EmptyRun == [heap |-> <<>>, log |-> <<>>]

Logged(st, node, ev) ==
    [st EXCEPT !.log = Append(@, [node |-> node, ev |-> ev, ref |-> 0,
                                   matches |-> FALSE, context |-> {}])]

\* a new Match object; its reference is Len of the new heap
Alloc(st, m) == [st EXCEPT !.heap = Append(@, m)]

Return(st, node, ref) ==
    [ st  |-> [st EXCEPT !.log = Append(@, [node |-> node, ev |-> "ret",
                                            ref |-> ref,
                                            matches |-> st.heap[ref].matches,
                                            context |-> st.heap[ref].context])],
      ref |-> ref ]

\* Pattern.match of a leaf
Pattern_match(self, request, node, st) ==
    LET value == Parse(self, request)
        st0   == Logged(st, node, "call")
    IN  IF self.base # None
        THEN LET st1  == Alloc(Logged(st0, node, "base"),
                               Pattern__match(self.base, value))
                 bref == Len(st1.heap)
             IN  IF ~Bool(st1.heap[bref])
                 THEN Return(st1, node, bref)
                 ELSE LET st2 == Alloc(Logged(st1, node, "lookup"),
                                       Pattern__match(self, strip_base(self, value)))
                      IN  Return(st2, node, Len(st2.heap))
        ELSE LET st2 == Alloc(Logged(st0, node, "lookup"),
                              Pattern__match(self, value))
             IN  Return(st2, node, Len(st2.heap))

\* {**c1, **c2}
MergeContext(c1, c2) ==
    {kv \in c1 : \A kv2 \in c2 : kv2[1] # kv[1]} \cup c2

RECURSIVE match(_, _, _, _)

\* _And.match that skips the second operand when the first did not match
And_match_shortcircuit(self, request, node, st) ==
    LET st0    == Logged(st, node, "call")
        match1 == match(self.a, request, Append(node, 1), st0)
    IN  IF ~Bool(match1.st.heap[match1.ref])
        THEN LET st3 == Alloc(match1.st, Match(FALSE, {}))
             IN  Return(st3, node, Len(st3.heap))
        ELSE LET match2 == match(self.b, request, Append(node, 2), match1.st)
                 st2    == match2.st
                 st3    == Alloc(st2,
                                 IF Bool(st2.heap[match2.ref])
                                 THEN Match(TRUE,
                                        MergeContext(st2.heap[match1.ref].context,
                                                     st2.heap[match2.ref].context))
                                 ELSE Match(FALSE, {}))
             IN  Return(st3, node, Len(st3.heap))

\* _And.match
And_match(self, request, node, st) ==
    LET st0    == Logged(st, node, "call")
        match1 == match(self.a, request, Append(node, 1), st0)
        match2 == match(self.b, request, Append(node, 2), match1.st)
        st2    == match2.st
    IN  IF Bool(st2.heap[match1.ref]) /\ Bool(st2.heap[match2.ref])
        THEN LET st3 == Alloc(st2, Match(TRUE,
                                  MergeContext(st2.heap[match1.ref].context,
                                               st2.heap[match2.ref].context)))
             IN  Return(st3, node, Len(st3.heap))
        ELSE LET st3 == Alloc(st2, Match(FALSE, {}))
             IN  Return(st3, node, Len(st3.heap))

\* _Or.match that answers a failure of both operands with a Match of its own
Or_match_own_failure(self, request, node, st) ==
    LET st0    == Logged(st, node, "call")
        match1 == match(self.a, request, Append(node, 1), st0)
    IN  IF ~Bool(match1.st.heap[match1.ref])
        THEN LET match2 == match(self.b, request, Append(node, 2), match1.st)
             IN  IF Bool(match2.st.heap[match2.ref])
                 THEN Return(match2.st, node, match2.ref)
                 ELSE LET st3 == Alloc(match2.st, Match(FALSE, {}))
                      IN  Return(st3, node, Len(st3.heap))
        ELSE Return(match1.st, node, match1.ref)

\* _Or.match
Or_match(self, request, node, st) ==
    LET st0    == Logged(st, node, "call")
        match1 == match(self.a, request, Append(node, 1), st0)
    IN  IF ~Bool(match1.st.heap[match1.ref])
        THEN LET match2 == match(self.b, request, Append(node, 2), match1.st)
             IN  Return(match2.st, node, match2.ref)
        ELSE Return(match1.st, node, match1.ref)

\* Match.__invert__: flips the object's own boolean and returns the object
Match_invert(st, ref) ==
    [ st  |-> [st EXCEPT !.heap[ref].matches = ~@],
      ref |-> ref ]

\* _Invert.match
Invert_match(self, request, node, st) ==
    LET st0   == Logged(st, node, "call")
        child == match(self.a, request, Append(node, 1), st0)
        inv   == Match_invert(child.st, child.ref)
    IN  Return(inv.st, node, inv.ref)

\* <pattern>.match(request)
match(self, request, node, st) ==
    CASE self.kind = "leaf" -> Pattern_match(self, request, node, st)
      [] self.kind = "and"  -> And_match(self, request, node, st)
      [] self.kind = "or"   -> Or_match(self, request, node, st)
      [] self.kind = "not"  -> Invert_match(self, request, node, st)

\* bool(pattern.match(request)) of a fresh run
Matches(pattern, request) ==
    LET run == match(pattern, request, <<>>, EmptyRun)
    IN  Bool(run.st.heap[run.ref])

(***************************************************************************)
(* Combinators and flattening.                                              *)
(***************************************************************************)
\* Pattern.__and__, Pattern.__or__, Pattern.__invert__
And(a, b) == [kind |-> "and", a |-> a, b |-> b]
Or(a, b) == [kind |-> "or", a |-> a, b |-> b]
Invert(a) == [kind |-> "not", a |-> a]

\* list(iter(pattern)): the leaves, depth first
RECURSIVE Leaves(_)
Leaves(pattern) ==
    CASE pattern.kind = "leaf" -> <<pattern>>
      [] pattern.kind = "not"  -> Leaves(pattern.a)
      [] OTHER -> Leaves(pattern.a) \o Leaves(pattern.b)

\* reduce(operator.and_, patterns)
RECURSIVE ReduceAnd(_, _)
ReduceAnd(acc, patterns) ==
    IF patterns = <<>> THEN acc
    ELSE ReduceAnd(And(acc, Head(patterns)), Tail(patterns))

\* combine
combine(patterns) ==
    LET kept == SelectSeq(patterns, LAMBDA x : x # None)
    IN  IF kept = <<>> THEN None
        ELSE ReduceAnd(Head(kept), Tail(kept))

(***************************************************************************)
(* JSON.  A JSON value is a dict (one pair a key), a list, a str or an int.  *)
(***************************************************************************)
\* the order of characters in keys: digits, capitals, "_", small letters
OrdChars == DigitChars \o UpperChars \o "_" \o LowerChars

\* a < b for strings
RECURSIVE StrLess(_, _)
StrLess(a, b) ==
    IF b = "" THEN FALSE
    ELSE IF a = "" THEN TRUE
    ELSE LET ca == Find(OrdChars, SubSeq(a, 1, 1), 1)
             cb == Find(OrdChars, SubSeq(b, 1, 1), 1)
         IN  IF ca # cb THEN ca < cb
             ELSE StrLess(DropPrefix(a, 1), DropPrefix(b, 1))

\* sorted(pairs) by key
RECURSIVE SortPairs(_)
SortPairs(pairs) ==
    IF pairs = <<>> THEN <<>>
    ELSE LET least == CHOOSE i \in 1..Len(pairs) :
                          \A j \in 1..Len(pairs) :
                              j = i \/ StrLess(pairs[i][1], pairs[j][1])
         IN  <<pairs[least]>>
             \o SortPairs(SubSeq(pairs, 1, least - 1)
                          \o SubSeq(pairs, least + 1, Len(pairs)))

\* str(n), n >= 0
RECURSIVE IntStr(_)
IntStr(n) ==
    IF n < 10 THEN SubSeq(DigitChars, n + 1, n + 1)
    ELSE IntStr(n \div 10) \o SubSeq(DigitChars, (n % 10) + 1, (n % 10) + 1)

\* ", ".join(parts)
RECURSIVE Join(_)
Join(parts) ==
    IF parts = <<>> THEN ""
    ELSE IF Len(parts) = 1 THEN parts[1]
    ELSE parts[1] \o ", " \o Join(Tail(parts))

\* JSON.hash: jsonlib.dumps(value, sort_keys=True)
RECURSIVE JSON_hash(_)
JSON_hash(value) ==
    CASE IsA(value, "str")  -> "\"" \o value.str \o "\""
      [] IsA(value, "int")  -> IntStr(value.int)
      [] IsA(value, "list") ->
            "[" \o Join([i \in 1..Len(value.list) |-> JSON_hash(value.list[i])])
                \o "]"
      [] IsA(value, "dict") ->
            LET sorted == SortPairs(value.dict)
            IN  "{" \o Join([i \in 1..Len(sorted) |->
                               "\"" \o sorted[i][1] \o "\": "
                                    \o JSON_hash(sorted[i][2])])
                    \o "}"

\* JSON(value, lookup, path): PathPattern.__init__, JSON.clean
JSON(value, lookup, path) ==
    [ kind   |-> "leaf",
      key    |-> "json",
      lookup |-> IF lookup = "" THEN Lookups("json")[1] ELSE lookup,
      base   |-> None,
      value  |-> PyStr(JSON_hash(value)),
      path   |-> path ]

\* str.split(sep)
RECURSIVE Split(_, _)
Split(s, sep) ==
    LET parts == Partition(s, sep)
    IN  IF parts[2] = "" THEN <<s>>
        ELSE <<parts[1]>> \o Split(parts[3], sep)

Raised(exc) == [kind |-> "error", exc |-> exc]

Value(v) == [kind |-> "value", value |-> v]

\* value[key] of JSON.parse's loop, key being int(bit) when bit.isdigit()
Subscript(value, bit) ==
    LET numeric == IsDigit(bit)
        index   == ToInt(bit, 0)
    IN  CASE IsA(value, "dict") ->
               IF ~numeric /\ \E i \in 1..Len(value.dict) : value.dict[i][1] = bit
               THEN LET i == CHOOSE i \in 1..Len(value.dict) :
                                 value.dict[i][1] = bit
                    IN  Value(value.dict[i][2])
               ELSE Raised("KeyError")
          [] IsA(value, "list") ->
               IF ~numeric THEN Raised("TypeError")
               ELSE IF index < Len(value.list) THEN Value(value.list[index + 1])
               ELSE Raised("IndexError")
          [] IsA(value, "str") ->
               IF ~numeric THEN Raised("TypeError")
               ELSE IF index < Len(value.str)
               THEN Value(PyStr(SubSeq(value.str, index + 1, index + 1)))
               ELSE Raised("IndexError")
          [] IsA(value, "int") -> Raised("TypeError")

RECURSIVE Descend(_, _)
Descend(value, bits) ==
    IF bits = <<>> THEN Value(value)
    ELSE LET got == Subscript(value, Head(bits))
         IN  IF got.kind = "error" THEN got
             ELSE Descend(got.value, Tail(bits))

\* JSON.parse that swallows the error of the navigation and reads nothing
JSON_parse_silent(self, request) ==
    LET json == request.body
        got  == IF self.path # "" THEN Descend(json, Split(self.path, "__"))
                ELSE Value(json)
    IN  IF got.kind = "error" THEN Value(PyStr(""))
        ELSE Value(PyStr(JSON_hash(got.value)))

\* JSON.parse: the hash of the designated subvalue, or the error raised
JSON_parse(self, request) ==
    LET json == request.body
        got  == IF self.path # "" THEN Descend(json, Split(self.path, "__"))
                ELSE Value(json)
    IN  IF got.kind = "error" THEN got
        ELSE Value(PyStr(JSON_hash(got.value)))

\* Pattern.match of a JSON leaf without base: a Match, or the error raised
JSON_match(self, request) ==
    LET value == JSON_parse(self, request)
    IN  IF value.kind = "error" THEN value
        ELSE Pattern__match(self, value.value)

(***************************************************************************)
(* parse_url_patterns and merge_patterns.  A map of base candidates is the  *)
(* sequence of its <<key, pattern>> items in insertion order.               *)
(***************************************************************************)
\* parse_url_patterns, of a str or a compiled regular expression
parse_url_patterns(url, exact) ==
    IF Falsy(url) THEN <<>>
    ELSE IF IsA(url, "re")
    THEN <<<<"url", Pattern("url", url, "regex")>>>>
    ELSE LET u           == HttpxURL(url.str)
             scheme_port == get_scheme_port(u.scheme)
         IN  (IF u.scheme # ""
              THEN <<<<"scheme", Pattern("scheme", PyStr(u.scheme), "")>>>>
              ELSE <<>>)
             \o (IF u.host # "" THEN <<<<"host", Pattern("host", PyStr(u.host), "")>>>>
                 ELSE <<>>)
             \o (IF u.port # 0 /\ u.port # scheme_port
                 THEN <<<<"port", Pattern("port", PyInt(u.port), "")>>>>
                 ELSE <<>>)
             \o (IF u.raw_path # ""
                 THEN <<<<"path", Pattern("path", PyStr(u.path),
                                          IF exact THEN "eq" ELSE "startswith")>>>>
                 ELSE <<>>)
             \o (IF u.query # ""
                 THEN <<<<"params", Pattern("params", PyStr(u.query),
                                            IF exact THEN "eq" ELSE "contains")>>>>
                 ELSE <<>>)

\* the test for "host" that looks at the first leaf only
IsAbsolute_first(patterns) == patterns[1].key = "host"

\* "host" in (_pattern.key for _pattern in patterns)
IsAbsolute(patterns) == \E i \in 1..Len(patterns) : patterns[i].key = "host"

\* bases.get(key) in place of bases.pop(key, None): the map is left whole
PopBase_get(bases, key) ==
    [ base |-> IF \E i \in 1..Len(bases) : bases[i][1] = key
               THEN (CHOOSE kv \in {bases[i] : i \in 1..Len(bases)} : kv[1] = key)[2]
               ELSE None,
      left |-> bases ]

\* bases.pop(key, None): the candidate found (or None) and the map left
PopBase(bases, key) ==
    [ base |-> IF \E i \in 1..Len(bases) : bases[i][1] = key
               THEN (CHOOSE kv \in {bases[i] : i \in 1..Len(bases)} : kv[1] = key)[2]
               ELSE None,
      left |-> SelectSeq(bases, LAMBDA kv : kv[1] # key) ]

\* the skip condition without "base.lookup is Lookup.EQUAL"
SkipBase_keeps_exact(pattern, base) ==
    pattern.base # None

\* the skip condition without "_pattern.base"
SkipBase_overwrites(pattern, base) ==
    base # None /\ base.lookup = "eq"

\* _pattern.base or base and base.lookup is Lookup.EQUAL: the leaf is left as is
SkipBase(pattern, base) ==
    \/ pattern.base # None
    \/ (base # None /\ base.lookup = "eq")

\* the loop over the flattened leaves: the leaves as the loop leaves them, and
\* the candidates left
RECURSIVE SetBases(_, _, _)
SetBases(patterns, bases, done) ==
    IF patterns = <<>> THEN [patterns |-> done, bases |-> bases]
    ELSE LET pattern == Head(patterns)
             popped  == PopBase(bases, pattern.key)
         IN  IF SkipBase(pattern, popped.base)
             THEN SetBases(Tail(patterns), popped.left, Append(done, pattern))
             ELSE SetBases(Tail(patterns), popped.left,
                           Append(done, [pattern EXCEPT !.base = popped.base]))

RECURSIVE NLeaves(_)
NLeaves(pattern) ==
    CASE pattern.kind = "leaf" -> 1
      [] pattern.kind = "not"  -> NLeaves(pattern.a)
      [] OTHER -> NLeaves(pattern.a) + NLeaves(pattern.b)

\* the tree with its leaves, depth first, replaced by those of the list: the
\* loop assigns to the leaf objects, and the tree holds them
RECURSIVE WithLeaves(_, _)
WithLeaves(pattern, leaves) ==
    CASE pattern.kind = "leaf" -> leaves[1]
      [] pattern.kind = "not"  ->
            [pattern EXCEPT !.a = WithLeaves(pattern.a, leaves)]
      [] OTHER ->
            LET n == NLeaves(pattern.a)
            IN  [pattern EXCEPT
                    !.a = WithLeaves(pattern.a, SubSeq(leaves, 1, n)),
                    !.b = WithLeaves(pattern.b, SubSeq(leaves, n + 1, Len(leaves)))]

\* merge_patterns(pattern, **bases)
merge_patterns(pattern, bases) ==
    IF bases = <<>> THEN pattern
    ELSE LET patterns == IF pattern # None THEN Leaves(pattern) ELSE <<>>
             loop     == IF pattern = None
                         THEN [patterns |-> <<>>, bases |-> bases]
                         ELSE IF IsAbsolute(patterns)
                         THEN [patterns |-> patterns, bases |-> <<>>]
                         ELSE SetBases(patterns, bases, <<>>)
             merged   == IF pattern = None THEN None
                         ELSE WithLeaves(pattern, loop.patterns)
         IN  IF loop.bases # <<>>
             THEN LET base_pattern ==
                          combine([i \in 1..Len(loop.bases) |-> loop.bases[i][2]])
                  IN  IF pattern # None THEN And(base_pattern, merged)
                      ELSE base_pattern
             ELSE merged

(***************************************************************************)
(* The builder M.  A keyword argument is [name, value].                     *)
(***************************************************************************)
\* the loop of M over its keyword arguments: the patterns and the extras it
\* ends with, or the error raised
RECURSIVE M_loop(_, _, _)
M_loop(lookups, patterns, extras) ==
    IF lookups = <<>>
    THEN [kind |-> "ok", patterns |-> patterns, extras |-> extras]
    ELSE
    LET kw          == Head(lookups)
        parts       == Partition(kw.name, "__")
        pattern_key == parts[1]
        rest        == parts[3]
        rparts      == RPartition(rest, "__")
        lookup_name == rparts[3]
        valid       == lookup_name \in LookupNames
    IN  IF Falsy(kw.value) THEN M_loop(Tail(lookups), patterns, extras)
        ELSE IF kw.name = "url"
        THEN M_loop(Tail(lookups), patterns, parse_url_patterns(kw.value, TRUE))
        ELSE IF pattern_key \notin PATTERNS THEN Raised("KeyError")
        ELSE IF pattern_key = "json"
        THEN LET lookup == IF valid THEN lookup_name ELSE ""
                 path   == IF lookup_name # "" /\ ~valid THEN rest ELSE rparts[1]
             IN  IF Unsupported(pattern_key, lookup)
                 THEN Raised("NotImplementedError")
                 ELSE M_loop(Tail(lookups),
                             Append(patterns, JSON(kw.value, lookup, path)),
                             extras)
        ELSE IF lookup_name # "" /\ ~valid THEN Raised("ValueError")
        ELSE IF Unsupported(pattern_key, lookup_name)
        THEN Raised("NotImplementedError")
        ELSE M_loop(Tail(lookups),
                    Append(patterns, Pattern(pattern_key, kw.value, lookup_name)),
                    extras)

\* the end of M, after the loop: combine, and merge_patterns when there are
\* extras
M_merge(loop) ==
    IF loop.kind = "error" THEN loop
    ELSE IF loop.extras # <<>>
    THEN merge_patterns(combine(loop.patterns), loop.extras)
    ELSE combine(loop.patterns)

\* M(*patterns, **lookups): the pattern built (None when there is none), or
\* the error raised
M(patterns, lookups) == M_merge(M_loop(lookups, patterns, <<>>))

(***************************************************************************)
(* The inputs the operations are tried on.                                  *)
(***************************************************************************)
Request(method, url) ==
    [method |-> method, url |-> HttpxURL(url), headers |-> <<>>,
     body |-> PyStr("")]

PostBaseSubThing == Request("POST", "https://a.test/base/sub/thing")
PostOtherSub == Request("POST", "https://a.test/other/sub")
GetBaseSubThing == Request("GET", "https://a.test/base/sub/thing")
PostSubThing == Request("POST", "https://a.test/sub/thing")

Requests ==
    { PostBaseSubThing, PostOtherSub, GetBaseSubThing, PostSubThing,
      Request("GET", "https://a.test/api/v1/x?x=1&y=2"),
      Request("GET", "http://b.test:8080/items/42") }

\* the operands a test author combines with &, | and ~
Operands ==
    LET leaves == { Pattern("method", PyStr("post"), ""),
                    Pattern("path", PyStr("/sub"), "startswith"),
                    Pattern("path", PyStr("^/items/(?P<id>[0-9]+)$"), "regex") }
    IN  leaves \cup {Invert(leaf) : leaf \in leaves}

\* the operands of the patterns merge_patterns is given
MergeOperands ==
    { Pattern("host", PyStr("a.test"), ""),
      Invert(Pattern("host", PyStr("a.test"), "")),
      Pattern("path", PyStr("v1"), "startswith"),
      Pattern("params", PyStr("x=1"), "contains"),
      Pattern("method", PyStr("post"), "") }

Keyword(name, value) == [name |-> name, value |-> value]

Str(name, value) == Keyword(name, PyStr(value))

\* method="POST", url="https://a.test/base/", path__startswith="/sub"
PostBaseSub ==
    <<Str("method", "POST"), Str("url", "https://a.test/base/"),
      Str("path__startswith", "/sub")>>

\* the keyword arguments M is called with
Keywords ==
    { PostBaseSub,
      <<Str("method", "post"), Str("path__startswith", "sub")>>,
      <<Str("path__startswith", "v1"), Str("params__contains", "x=1")>>,
      <<Keyword("url", Compile("^https://a.test/items/(?P<id>[0-9]+)$")),
        Str("url__startswith", "https://a.test/")>>,
      <<Str("url", "http://b.test:8080?x=1")>>,
      <<Str("method", ""), Keyword("host__in", PyList(<<PyStr("a.test")>>))>>,
      <<Str("cookie", "a")>> }

\* the maps of base candidates merge_patterns is given: those of
\* parse_url_patterns for a URL, exact or not
Candidates ==
    { parse_url_patterns(url, exact) :
        url \in { PyStr(""), PyStr("https://a.test/base/"), PyStr("/api/?x=1") },
        exact \in BOOLEAN }

\* with those of a compiled regular expression
BuildCandidates ==
    Candidates
    \cup { parse_url_patterns(Compile("^https://a.test/items/(?P<id>[0-9]+)$"),
                              TRUE) }

(***************************************************************************)
(* The operations.                                                          *)
(***************************************************************************)
Init ==
    /\ tree = None
    /\ built = <<>>
    /\ last = [op |-> "init"]
    /\ nmerge = 0

\* a first operand is constructed
New(operand) ==
    /\ tree = None
    /\ last.op = "init"
    /\ tree' = operand
    /\ last' = [op |-> "new"]
    /\ UNCHANGED <<built, nmerge>>

\* tree & operand
AndWith(operand) ==
    /\ tree # None
    /\ NLeaves(tree) < MaxLeaves
    /\ tree' = And(tree, operand)
    /\ last' = [op |-> "and"]
    /\ UNCHANGED <<built, nmerge>>

\* tree | operand
OrWith(operand) ==
    /\ tree # None
    /\ NLeaves(tree) < MaxLeaves
    /\ tree' = Or(tree, operand)
    /\ last' = [op |-> "or"]
    /\ UNCHANGED <<built, nmerge>>

\* ~tree, of a tree that is no inversion itself
InvertTree ==
    /\ tree # None
    /\ tree.kind # "not"
    /\ tree' = Invert(tree)
    /\ last' = [op |-> "invert"]
    /\ UNCHANGED <<built, nmerge>>

\* M(**lookups)
Build(lookups) ==
    /\ last.op = "init"
    /\ \E pattern \in {M(<<>>, lookups)} :
          IF pattern.kind = "error"
          THEN /\ last' = [op |-> "raised", exc |-> pattern.exc]
               /\ UNCHANGED <<tree, built>>
          ELSE /\ tree' = pattern
               /\ built' = lookups
               /\ last' = [op |-> "M"]
    /\ UNCHANGED nmerge

\* merge_patterns(tree, **bases)
Merge(bases) ==
    /\ nmerge < MaxMerges
    /\ last.op # "raised"
    /\ tree' = merge_patterns(tree, bases)
    /\ last' = [op |-> "merge", pattern |-> tree, bases |-> bases]
    /\ nmerge' = nmerge + 1
    /\ built' = <<>>

\* tree.match(request)
DoMatch(request) ==
    /\ tree # None
    /\ LET run == match(tree, request, <<>>, EmptyRun)
       IN  last' = [op |-> "match", request |-> request, ref |-> run.ref,
                    heap |-> run.st.heap, log |-> run.st.log]
    /\ UNCHANGED <<tree, built, nmerge>>

(***************************************************************************)
(* Spec: operands are combined with &, | and ~ and the pattern is matched.  *)
(***************************************************************************)
Next ==
    \/ \E operand \in Operands : New(operand)
    \/ \E operand \in Operands : AndWith(operand)
    \/ \E operand \in Operands : OrWith(operand)
    \/ InvertTree
    \/ \E request \in Requests : DoMatch(request)

Spec == Init /\ [][Next]_vars

(***************************************************************************)
(* SpecMerge: a pattern, or none, is merged with maps of base candidates.   *)
(***************************************************************************)
NextMerge ==
    \/ \E operand \in MergeOperands : New(operand)
    \/ \E operand \in MergeOperands : AndWith(operand)
    \/ \E operand \in MergeOperands : OrWith(operand)
    \/ \E bases \in Candidates : Merge(bases)

SpecMerge == Init /\ [][NextMerge]_vars

(***************************************************************************)
(* SpecBuild: M builds a pattern, which is merged and matched.              *)
(***************************************************************************)
NextBuild ==
    \/ \E lookups \in Keywords : Build(lookups)
    \/ \E bases \in BuildCandidates : Merge(bases)
    \/ \E request \in Requests : DoMatch(request)

SpecBuild == Init /\ [][NextBuild]_vars

(***************************************************************************)
(* SpecContains: a Headers or Params pattern is matched against the         *)
(* multi-item list of a request.                                            *)
(***************************************************************************)
\* the lists of at most n of the pairs
RECURSIVE ListsUpTo(_, _)
ListsUpTo(pairs, n) ==
    IF n = 0 THEN {<<>>}
    ELSE LET shorter == ListsUpTo(pairs, n - 1)
         IN  shorter \cup {Append(l, pair) : l \in shorter, pair \in pairs}

ItemLists == ListsUpTo({<<"a", "1">>, <<"b", "2">>}, MaxItems)

\* "k=v&k=v": the query string of the pairs
RECURSIVE QueryOf(_)
QueryOf(items) ==
    IF items = <<>> THEN ""
    ELSE items[1][1] \o "=" \o items[1][2]
         \o (IF Len(items) = 1 THEN "" ELSE "&" \o QueryOf(Tail(items)))

\* a request with these headers and these query parameters
ItemsRequest(items) ==
    [method |-> "GET",
     url |-> HttpxURL("https://a.test/" \o
                      (IF items = <<>> THEN "" ELSE "?" \o QueryOf(items))),
     headers |-> items,
     body |-> PyStr("")]

ItemsRequests == {ItemsRequest(items) : items \in ItemLists}

ItemsPatterns ==
    {Pattern(key, PyList(items), "contains") :
        key \in {"headers", "params"}, items \in ItemLists}

NextContains ==
    \/ \E pattern \in ItemsPatterns : New(pattern)
    \/ \E request \in ItemsRequests : DoMatch(request)

SpecContains == Init /\ [][NextContains]_vars

(***************************************************************************)
(* SpecJSON: M builds a JSON pattern, which is matched against a body.      *)
(***************************************************************************)
\* the paths of at most n of the segments, each "" or a segment after "__"
RECURSIVE PathsUpTo(_, _)
PathsUpTo(bits, n) ==
    IF n = 0 THEN {""}
    ELSE LET shorter == PathsUpTo(bits, n - 1)
         IN  shorter \cup {path \o "__" \o bit : path \in shorter, bit \in bits}

JSONNames == {"json" \o path : path \in PathsUpTo({"user", "0", "name", "1"}, MaxBits)}

Alice == PyDict(<<<<"name", PyStr("Alice")>>, <<"age", PyInt(30)>>>>)

JSONValues ==
    { PyStr("Alice"),
      PyStr("A"),
      PyDict(<<<<"age", PyInt(30)>>, <<"name", PyStr("Alice")>>>>),
      PyList(<<Alice>>) }

JSONKeywords ==
    {<<Keyword(name, value)>> : name \in JSONNames, value \in JSONValues}
    \cup {<<Keyword("json__user__eq", PyList(<<Alice>>))>>}

Body(json) ==
    [method |-> "POST", url |-> HttpxURL("https://a.test/"), headers |-> <<>>,
     body |-> json]

JSONRequests ==
    { Body(PyDict(<<<<"user", PyList(<<Alice>>)>>>>)),
      Body(PyDict(<<<<"user", PyList(<<>>)>>>>)),
      Body(PyDict(<<<<"name", PyStr("Alice")>>, <<"user", Alice>>>>)),
      Body(PyList(<<PyStr("Alice"), Alice>>)) }

\* tree.match(request) of a JSON leaf
MatchJSON(request) ==
    /\ tree # None
    /\ LET result == JSON_match(tree, request)
       IN  last' = [op |-> "json", request |-> request, result |-> result]
    /\ UNCHANGED <<tree, built, nmerge>>

NextJSON ==
    \/ \E lookups \in JSONKeywords : Build(lookups)
    \/ \E request \in JSONRequests : MatchJSON(request)

SpecJSON == Init /\ [][NextJSON]_vars

(***************************************************************************)
(* Reading a pattern and the log of a run.                                  *)
(***************************************************************************)
\* the places of the nodes of a tree
RECURSIVE Nodes(_, _)
Nodes(pattern, node) ==
    CASE pattern.kind = "leaf" -> {node}
      [] pattern.kind = "not"  -> {node} \cup Nodes(pattern.a, Append(node, 1))
      [] OTHER -> {node} \cup Nodes(pattern.a, Append(node, 1))
                         \cup Nodes(pattern.b, Append(node, 2))

\* the node at a place
RECURSIVE NodeAt(_, _)
NodeAt(pattern, node) ==
    IF node = <<>> THEN pattern
    ELSE IF Head(node) = 1 THEN NodeAt(pattern.a, Tail(node))
    ELSE NodeAt(pattern.b, Tail(node))

\* the places in the log of the events ev of a node
Events(node, ev) ==
    {i \in 1..Len(last.log) : last.log[i].node = node /\ last.log[i].ev = ev}

\* the place in the log of the one event ev of a node
Event(node, ev) == CHOOSE i \in Events(node, ev) : TRUE

Once(node, ev) == Cardinality(Events(node, ev)) = 1

\* what a node's match returned
Returned(node) == last.log[Event(node, "ret")]

NodesOf(kind) == {node \in Nodes(tree, <<>>) : NodeAt(tree, node).kind = kind}

(***************************************************************************)
(* C3: NOT(p).match(r) returns a new Match object: it is not the object     *)
(* that p.match(r) returned, and that object still holds p's own outcome    *)
(* when NOT has returned.                                                   *)
(***************************************************************************)
C3_InvertReturnsNewMatch ==
    last.op = "match" =>
        \A node \in NodesOf("not") :
            Once(node, "ret") =>
                LET child == Returned(Append(node, 1))
                IN  /\ Returned(node).ref # child.ref
                    /\ last.heap[child.ref].matches = child.matches

(***************************************************************************)
(* C4: one call of AND(p1, p2).match calls p1.match exactly once and then   *)
(* p2.match exactly once, whatever p1 returned.                             *)
(***************************************************************************)
C4_AndEvaluatesBoth ==
    last.op = "match" =>
        \A node \in NodesOf("and") :
            Once(node, "call") =>
                LET p1 == Append(node, 1)
                    p2 == Append(node, 2)
                IN  /\ Once(p1, "call") /\ Once(p1, "ret")
                    /\ Once(p2, "call") /\ Once(p2, "ret")
                    /\ Event(node, "call") < Event(p1, "call")
                    /\ Event(p1, "ret") < Event(p2, "call")
                    /\ Event(p2, "ret") < Event(node, "ret")

\* an AND whose first operand did not match and whose second one was called
C4_Witness ==
    /\ last.op = "match"
    /\ \E node \in NodesOf("and") :
          /\ Once(node, "call")
          /\ ~Returned(Append(node, 1)).matches
          /\ Once(Append(node, 2), "call")

\* two returns hand out one Match object, read alike
SameResult(r1, r2) ==
    /\ r1.ref = r2.ref
    /\ r1.matches = r2.matches
    /\ r1.context = r2.context

(***************************************************************************)
(* C5: OR(p1, p2).match(r) returns p1's result, boolean and context,        *)
(* without calling p2 when p1 matched; otherwise it returns p2's result as  *)
(* it is, matched or not, with p2's context.                                *)
(***************************************************************************)
C5_OrReturnsOperandResult ==
    last.op = "match" =>
        \A node \in NodesOf("or") :
            Once(node, "call") =>
                LET p1 == Append(node, 1)
                    p2 == Append(node, 2)
                IN  /\ Once(p1, "call") /\ Once(p1, "ret")
                    /\ IF Returned(p1).matches
                       THEN /\ Events(p2, "call") = {}
                            /\ SameResult(Returned(node), Returned(p1))
                       ELSE /\ Once(p2, "call") /\ Once(p2, "ret")
                            /\ SameResult(Returned(node), Returned(p2))

\* an OR whose operands both failed, the second with a context
C5_Witness ==
    /\ last.op = "match"
    /\ \E node \in NodesOf("or") :
          /\ Once(node, "call")
          /\ ~Returned(Append(node, 1)).matches
          /\ ~Returned(node).matches
          /\ Returned(node).context # {}

\* whether the run of the last match() ended in a Match that matched
Matched == last.heap[last.ref].matches

(***************************************************************************)
(* C2: a Headers or Params CONTAINS pattern matches only if every           *)
(* configured (key, value) pair occurs in the request at least as many      *)
(* times as in the configured list.                                         *)
(***************************************************************************)
C2_ContainsCountsDuplicates ==
    (last.op = "match" /\ tree.kind = "leaf" /\ tree.lookup = "contains"
        /\ tree.key \in {"headers", "params"}) =>
        LET configured == tree.value.items
            requested  == last.request.headers
        IN  Matched =>
                \A i \in 1..Len(configured) :
                    Count(requested, configured[i]) >= Count(configured, configured[i])

Rerooted(value) ==
    IF value = "" THEN "/"
    ELSE IF SubSeq(value, 1, 1) = "/" THEN value
    ELSE "/" \o value

\* the value a leaf's lookup is to read once its base matched
Stripped(leaf, value) ==
    IF leaf.key = "path"
    THEN PyStr(Rerooted(DropPrefix(value.str, PyLen(leaf.base.value))))
    ELSE value

\* the leaves with a base that the last match() entered
BasedLeaves ==
    {node \in NodesOf("leaf") :
        NodeAt(tree, node).base # None /\ Once(node, "call")}

(***************************************************************************)
(* C7: a leaf with a base compares the base first; when the base does not   *)
(* match, the leaf fails and its own lookup never runs; when it matches,    *)
(* the lookup reads the value with the base's prefix stripped (a path: cut  *)
(* and re-rooted onto "/"), so a path STARTS_WITH leaf under a STARTS_WITH  *)
(* base matches exactly the paths that start with the base and whose        *)
(* re-rooted remainder starts with the leaf's value.                        *)
(***************************************************************************)
C7_BaseBeforeLookup ==
    last.op = "match" =>
        \A node \in BasedLeaves :
            LET leaf  == NodeAt(tree, node)
                value == Parse(leaf, last.request)
                based == Bool(Pattern__match(leaf.base, value))
            IN  /\ Once(node, "base")
                /\ Event(node, "call") < Event(node, "base")
                /\ IF ~based
                   THEN /\ Events(node, "lookup") = {}
                        /\ ~Returned(node).matches
                   ELSE /\ Once(node, "lookup")
                        /\ Event(node, "base") < Event(node, "lookup")
                        /\ Returned(node).matches
                              = Bool(Pattern__match(leaf, Stripped(leaf, value)))
                /\ (leaf.key = "path" /\ leaf.lookup = "startswith"
                        /\ leaf.base.lookup = "startswith") =>
                      LET path == last.request.url.path
                          base == leaf.base.value.str
                      IN  Returned(node).matches
                            <=> /\ StartsWith(path, base)
                                /\ StartsWith(Rerooted(DropPrefix(path, Len(base))),
                                              leaf.value.str)

\* a path leaf whose base matched and whose lookup, on the re-rooted
\* remainder, matched too
C7_Witness ==
    /\ last.op = "match"
    /\ \E node \in BasedLeaves :
          /\ NodeAt(tree, node).key = "path"
          /\ NodeAt(tree, node).base.lookup = "startswith"
          /\ Once(node, "lookup")
          /\ Returned(node).matches

\* a == b for the values jsonlib.loads reads
RECURSIVE JsonEq(_, _)
JsonEq(a, b) ==
    CASE IsA(a, "str")  -> IsA(b, "str") /\ a.str = b.str
      [] IsA(a, "int")  -> IsA(b, "int") /\ a.int = b.int
      [] IsA(a, "list") ->
            /\ IsA(b, "list")
            /\ Len(a.list) = Len(b.list)
            /\ \A i \in 1..Len(a.list) : JsonEq(a.list[i], b.list[i])
      [] IsA(a, "dict") ->
            /\ IsA(b, "dict")
            /\ Len(a.dict) = Len(b.dict)
            /\ \A i \in 1..Len(a.dict) :
                  \E j \in 1..Len(b.dict) :
                      /\ a.dict[i][1] = b.dict[j][1]
                      /\ JsonEq(a.dict[i][2], b.dict[j][2])

\* where the segments lead in a body: to a subvalue ("found"), to a missing
\* key or an index out of range ("missing"), or to a subscript of the wrong
\* type ("mistyped")
RECURSIVE Resolve(_, _)
Resolve(value, bits) ==
    IF bits = <<>> THEN [way |-> "found", value |-> value]
    ELSE LET bit == Head(bits)
             n   == ToInt(bit, 0)
         IN  CASE IsA(value, "dict") ->
                    IF \E i \in 1..Len(value.dict) : value.dict[i][1] = bit
                    THEN Resolve((CHOOSE kv \in {value.dict[i] : i \in 1..Len(value.dict)} :
                                      kv[1] = bit)[2], Tail(bits))
                    ELSE [way |-> "missing"]
               [] IsA(value, "list") /\ IsDigit(bit) ->
                    IF n < Len(value.list)
                    THEN Resolve(value.list[n + 1], Tail(bits))
                    ELSE [way |-> "missing"]
               [] IsA(value, "str") /\ IsDigit(bit) ->
                    IF n < Len(value.str)
                    THEN Resolve(PyStr(SubSeq(value.str, n + 1, n + 1)), Tail(bits))
                    ELSE [way |-> "missing"]
               [] OTHER -> [way |-> "mistyped"]

\* the last match() of a JSON pattern raised
JSONRaised == "exc" \in DOMAIN last.result

(***************************************************************************)
(* C6: matching a JSON pattern with a path against a body in which a        *)
(* segment names a missing key or an index out of range raises an error to  *)
(* the caller, never a Match; when every segment resolves, the result is a  *)
(* Match that says whether the subvalue equals the configured value.        *)
(***************************************************************************)
C6_JSONPathRaisesOrCompares ==
    (last.op = "json" /\ tree.path # "") =>
        LET led == Resolve(last.request.body, Split(tree.path, "__"))
        IN  /\ led.way = "missing" =>
                 JSONRaised /\ last.result.exc \in {"KeyError", "IndexError"}
            /\ led.way = "found" =>
                 /\ ~JSONRaised
                 /\ last.result.matches = JsonEq(led.value, built[1].value)

\* a path whose index is out of range in the body raised
C6_Witness ==
    /\ last.op = "json"
    /\ tree.path # ""
    /\ Resolve(last.request.body, Split(tree.path, "__")).way = "missing"
    /\ JSONRaised
    /\ last.result.exc = "IndexError"

(***************************************************************************)
(* Reading a merge: last holds the tree and the candidates merge_patterns   *)
(* was given, tree what it returned.                                        *)
(***************************************************************************)
\* a Host leaf anywhere in the tree
RECURSIVE HasHost(_)
HasHost(pattern) ==
    CASE pattern.kind = "leaf" -> pattern.key = "host"
      [] pattern.kind = "not"  -> HasHost(pattern.a)
      [] OTHER -> HasHost(pattern.a) \/ HasHost(pattern.b)

\* the tree without the bases of its leaves
RECURSIVE Bare(_)
Bare(pattern) ==
    CASE pattern.kind = "leaf" -> [pattern EXCEPT !.base = None]
      [] pattern.kind = "not"  -> [pattern EXCEPT !.a = Bare(pattern.a)]
      [] OTHER -> [pattern EXCEPT !.a = Bare(pattern.a), !.b = Bare(pattern.b)]

\* a tree of AND nodes over leaves
RECURSIVE AllAnd(_)
AllAnd(pattern) ==
    CASE pattern.kind = "leaf" -> TRUE
      [] pattern.kind = "and"  -> AllAnd(pattern.a) /\ AllAnd(pattern.b)
      [] OTHER -> FALSE

\* the leaves of the tree merge_patterns was given
GivenLeaves == IF last.pattern = None THEN <<>> ELSE Leaves(last.pattern)

\* the candidates whose key is the key of no leaf given, in the map's order
Unconsumed ==
    LET unused == SelectSeq(last.bases,
                            LAMBDA kv : \A i \in 1..Len(GivenLeaves) :
                                            GivenLeaves[i].key # kv[1])
    IN  [i \in 1..Len(unused) |-> unused[i][2]]

\* the candidate of a key in the map given
Candidate(key) ==
    (CHOOSE kv \in {last.bases[i] : i \in 1..Len(last.bases)} : kv[1] = key)[2]

HasCandidate(key) == \E i \in 1..Len(last.bases) : last.bases[i][1] = key

(***************************************************************************)
(* C8: merge_patterns on a tree with a Host leaf anywhere (also under OR    *)
(* or NOT) and a non-empty map of candidates returns the tree as it was:    *)
(* no base is set, no candidate is combined in, and it matches the          *)
(* requests it matched.                                                     *)
(***************************************************************************)
C8_AbsoluteTreeUnchanged ==
    (last.op = "merge" /\ last.pattern # None /\ HasHost(last.pattern)
        /\ last.bases # <<>>) =>
        /\ tree = last.pattern
        /\ \A request \in Requests :
              Matches(tree, request) = Matches(last.pattern, request)

\* a tree with a Host leaf that is not its first leaf, and a leaf a
\* candidate could have become the base of
C8_Witness ==
    /\ last.op = "merge"
    /\ last.pattern # None
    /\ HasHost(last.pattern)
    /\ GivenLeaves[1].key # "host"
    /\ \E i \in 1..Len(GivenLeaves) :
          /\ GivenLeaves[i].base = None
          /\ HasCandidate(GivenLeaves[i].key)
          /\ Candidate(GivenLeaves[i].key).lookup # "eq"

(***************************************************************************)
(* C9: after any merges every leaf's base is absent or a pattern of the     *)
(* leaf's key whose lookup is not EQUAL; a merge keeps a base a leaf has,   *)
(* gives a key's candidate to the first leaf of that key only, and changes  *)
(* no leaf's kind, lookup or value.                                         *)
(***************************************************************************)
C9_BaseAttachedOnce ==
    /\ tree # None =>
          \A i \in 1..Len(Leaves(tree)) :
              LET leaf == Leaves(tree)[i]
              IN  \/ leaf.base = None
                  \/ (leaf.base.key = leaf.key /\ leaf.base.lookup # "eq")
    /\ (last.op = "merge" /\ last.pattern # None) =>
          LET after == Leaves(tree)
              added == Len(after) - Len(GivenLeaves)
          IN  /\ added >= 0
              /\ \A i \in 1..Len(GivenLeaves) :
                    LET given  == GivenLeaves[i]
                        merged == after[added + i]
                    IN  /\ merged.key = given.key
                        /\ merged.lookup = given.lookup
                        /\ merged.value = given.value
                        /\ given.base # None => merged.base = given.base
                        /\ merged.base # given.base =>
                              /\ \A j \in 1..(i - 1) : GivenLeaves[j].key # given.key
                              /\ HasCandidate(given.key)
                              /\ merged.base = Candidate(given.key)

\* a leaf that had a base was offered another candidate of its key
C9_Witness ==
    /\ last.op = "merge"
    /\ last.pattern # None
    /\ \E i \in 1..Len(GivenLeaves) :
          /\ GivenLeaves[i].base # None
          /\ HasCandidate(GivenLeaves[i].key)
          /\ Candidate(GivenLeaves[i].key).lookup # "eq"
          /\ Candidate(GivenLeaves[i].key) # GivenLeaves[i].base

(***************************************************************************)
(* C10: merge_patterns on a tree without Host leaf returns the AND of       *)
(* exactly the candidates whose key is no leaf's key with the tree (of      *)
(* these candidates alone when there is no tree), so it matches a request   *)
(* only if each of them does; a candidate whose key is a leaf's key is no   *)
(* top-level constraint of the result, attached or not.                     *)
(***************************************************************************)
C10_UnconsumedCandidatesOnTop ==
    (last.op = "merge" /\ (last.pattern = None \/ ~HasHost(last.pattern))) =>
        /\ IF Unconsumed = <<>>
           THEN IF last.pattern = None THEN tree = None
                ELSE Bare(tree) = Bare(last.pattern)
           ELSE IF last.pattern = None
                THEN AllAnd(tree) /\ Leaves(tree) = Unconsumed
                ELSE /\ tree.kind = "and"
                     /\ AllAnd(tree.a)
                     /\ Leaves(tree.a) = Unconsumed
                     /\ Bare(tree.b) = Bare(last.pattern)
        /\ tree # None =>
              \A request \in Requests :
                  Matches(tree, request) =>
                      \A i \in 1..Len(Unconsumed) : Matches(Unconsumed[i], request)

\* a candidate with EQUAL lookup was consumed by a leaf of its key while
\* others were left to be combined with the tree
C10_Witness ==
    /\ last.op = "merge"
    /\ last.pattern # None
    /\ ~HasHost(last.pattern)
    /\ Unconsumed # <<>>
    /\ \E i \in 1..Len(GivenLeaves) :
          /\ HasCandidate(GivenLeaves[i].key)
          /\ Candidate(GivenLeaves[i].key).lookup = "eq"

====
